---- MODULE Spec2Model ----
(***************************************************************************)
(* Model of abei/implements/procedure/procedure_basic.py: the procedure    *)
(* contract (run / run_input_check / normal and degraded paths), the       *)
(* composite procedure (set_joints / get_joints / run_normally) and the    *)
(* builtin variants (unary, binary, comparator, filter, branch, select).   *)
(*                                                                         *)
(* joint_validate and joint_run (joint_basic.py) and the data classes      *)
(* (data_basic.py) are imported by the file but are not part of it; they   *)
(* are modelled from the written specification of the system.              *)
(***************************************************************************)
EXTENDS Integers, Sequences, FiniteSets, TLC

VARIABLES proc, last, calls

vars == <<proc, last, calls>>

(***************************************************************************)
(* Bounds of the model.                                                    *)
(***************************************************************************)
MaxVal == 4
MaxCount == 3
MaxLen == 4
MaxJoints == 2

(***************************************************************************)
(* Data values.  A value is [k, n, d]: k is the Python type of the datum   *)
(* ("int", "bool", "float"), n its numerator and d its denominator (d = 1  *)
(* for int and bool; bool is n = 0 or n = 1 as in Python).                 *)
(***************************************************************************)
IntSig == "int@py"
BoolSig == "bool@py"
Sigs == {IntSig, BoolSig}

IntV(n) == [k |-> "int", n |-> n, d |-> 1]
BoolV(b) == [k |-> "bool", n |-> IF b THEN 1 ELSE 0, d |-> 1]
ErrV(e) == [k |-> e, n |-> 0, d |-> 0]
IsErr(v) == v.k \notin {"int", "bool", "float"}

RECURSIVE GCD(_, _)
GCD(a, b) == IF b = 0 THEN a ELSE GCD(b, a % b)

FloatV(n, m) == LET g == GCD(n, m) IN [k |-> "float", n |-> n \div g, d |-> m \div g]

RECURSIVE Pow(_, _)
Pow(x, y) == IF y = 0 THEN 1 ELSE x * Pow(x, y - 1)

VTruthy(v) == v.n # 0

(***************************************************************************)
(* Slots of a data list: None (absent), a data object (signature-tagged    *)
(* value; id is the identity of the object: its position in the caller's   *)
(* list, 0 for an object created during the call), or an object that is    *)
(* not an IProcedureData.                                                  *)
(***************************************************************************)
None == [tag |-> "none", sig |-> "", id |-> 0, k |-> "", n |-> 0, d |-> 0]
Junk == [tag |-> "junk", sig |-> "", id |-> 0, k |-> "", n |-> 0, d |-> 0]
Data(sig, id, v) == [tag |-> "data", sig |-> sig, id |-> id, k |-> v.k, n |-> v.n, d |-> v.d]

get_value(slot) == [k |-> slot.k, n |-> slot.n, d |-> slot.d]
clone(slot) == [slot EXCEPT !.id = 0]
set_value(slot, v) == [slot EXCEPT !.k = v.k, !.n = v.n, !.d = v.d]
ProcedureDataBool == Data(BoolSig, 0, BoolV(FALSE))
\* a data object defines neither __bool__ nor __len__: only None is falsy
SlotTruthy(slot) == slot.tag # "none"

(***************************************************************************)
(* Native functions of the operator classes, on ints >= 0 and bools.       *)
(***************************************************************************)
UnaryNames == {"not@py", "neg@py", "sq@py"}
BinaryNames == {"and@py", "or@py", "add@py", "sub@py", "mul@py", "div@py",
                "mod@py", "mod_div@py", "pow@py"}
ComparatorNames == {"eq@py", "ne@py", "lt@py", "lte@py", "gt@py", "gte@py"}

native_function(name, x, y) ==
    CASE name = "not@py" -> BoolV(~VTruthy(x))
      [] name = "neg@py" -> IntV(0 - x.n)
      [] name = "sq@py" -> IntV(x.n * x.n)
      [] name = "and@py" -> IF VTruthy(x) THEN y ELSE x
      [] name = "or@py" -> IF VTruthy(x) THEN x ELSE y
      [] name = "add@py" -> IntV(x.n + y.n)
      [] name = "sub@py" -> IntV(x.n - y.n)
      [] name = "mul@py" -> IntV(x.n * y.n)
      [] name = "div@py" -> IF y.n = 0 THEN ErrV("ZeroDivisionError") ELSE FloatV(x.n, y.n)
      [] name = "mod@py" -> IF y.n = 0 THEN ErrV("ZeroDivisionError") ELSE IntV(x.n % y.n)
      [] name = "mod_div@py" -> IF y.n = 0 THEN ErrV("ZeroDivisionError") ELSE IntV(x.n \div y.n)
      [] name = "pow@py" -> IntV(Pow(x.n, y.n))
      [] name = "eq@py" -> BoolV(x.n = y.n)
      [] name = "ne@py" -> BoolV(x.n # y.n)
      [] name = "lt@py" -> BoolV(x.n < y.n)
      [] name = "lte@py" -> BoolV(x.n <= y.n)
      [] name = "gt@py" -> BoolV(x.n > y.n)
      [] name = "gte@py" -> BoolV(x.n >= y.n)
      \* the base classes' placeholders
      [] name = "unary_op@py" -> x
      [] name = "binary_op@py" -> x
      [] name = "compare@py" -> BoolV(TRUE)

(***************************************************************************)
(* Integer helpers used by filter, branch and select.                      *)
(***************************************************************************)
RECURSIVE BitAnd(_, _)
BitAnd(a, b) ==
    IF a = 0 \/ b = 0 THEN 0
    ELSE (a % 2) * (b % 2) + 2 * BitAnd(a \div 2, b \div 2)

ShiftRight(a, i) == a \div Pow(2, i)

RECURSIVE Log2(_)
Log2(n) == IF n <= 1 THEN 0 ELSE 1 + Log2(n \div 2)

Repeat(x, n) == [i \in 1..n |-> x]
SeqsUpTo(S, n) == UNION {[1..m -> S] : m \in 0..n}
Min(a, b) == IF a < b THEN a ELSE b

(***************************************************************************)
(* Procedure instances.                                                    *)
(***************************************************************************)
NoJoint == 0

Instance(cls, name, signature, data_signature, ins, outs) ==
    [cls |-> cls, name |-> name, signature |-> signature, docstring |-> "",
     data_signature |-> data_signature,
     input_signatures |-> ins, output_signatures |-> outs,
     output_joints |-> <<>>, output_indices |-> <<>>]

ProcedureBasic ==
    Instance("ProcedureBasic", "", <<"do_nothing@py">>, "", <<>>, <<>>)

ProcedureComposite(input_signatures, output_signatures) ==
    Instance("ProcedureComposite", "composite@py", <<"uuid1">>, "",
             input_signatures, output_signatures)

ProcedureUnaryOperator(name, data_signature) ==
    Instance("ProcedureUnaryOperator", name, <<data_signature, name>>, data_signature,
             <<data_signature>>, <<data_signature>>)

ProcedureBinaryOperator(name, data_signature) ==
    Instance("ProcedureBinaryOperator", name, <<data_signature, name>>, data_signature,
             <<data_signature, data_signature>>, <<data_signature>>)

ProcedureComparator(name, data_signature) ==
    Instance("ProcedureComparator", name, <<data_signature, name>>, data_signature,
             <<data_signature, data_signature>>, <<data_signature>>)

ProcedureFilter(data_signature, data_count) ==
    Instance("ProcedureFilter", "filter@py", <<data_signature, "filter@py">>, data_signature,
             <<IntSig>> \o Repeat(data_signature, data_count),
             Repeat(data_signature, data_count))

ProcedureBranch(data_signature, data_count) ==
    Instance("ProcedureBranch", "branch@py", <<data_signature, "branch@py">>, data_signature,
             <<IntSig, data_signature>>, Repeat(data_signature, data_count))

ProcedureSelect(data_signature, data_count) ==
    Instance("ProcedureSelect", "select@py", <<data_signature, "select@py">>, data_signature,
             <<IntSig>> \o Repeat(data_signature, data_count), <<data_signature>>)

(***************************************************************************)
(* Outcome of a call: it returned a list, or it raised.  path is the path  *)
(* run dispatched to ("none" when the input check raised); evals lists the *)
(* joint targets the composite evaluated, in order.                        *)
(***************************************************************************)
Returned(path, out, evals) ==
    [status |-> "returned", err |-> "", path |-> path, out |-> out, evals |-> evals]
Raised(path, err, evals) ==
    [status |-> "raised", err |-> err, path |-> path, out |-> <<>>, evals |-> evals]
NoOutcome ==
    [status |-> "", err |-> "", path |-> "", out |-> <<>>, evals |-> <<>>]

(***************************************************************************)
(* ProcedureBasic.run_input_check                                          *)
(***************************************************************************)
RECURSIVE run_input_check_loop(_, _, _, _)
run_input_check_loop(l, signatures, i, has_missing_params) ==
    IF i > Len(l) THEN [err |-> "", ret |-> ~has_missing_params]
    ELSE IF l[i].tag = "none"
         THEN run_input_check_loop(l, signatures, i + 1, TRUE)
    ELSE IF l[i].tag # "data" THEN [err |-> "invalid data list", ret |-> FALSE]
    ELSE IF l[i].sig # signatures[i]
         THEN [err |-> "data signature miss match", ret |-> FALSE]
    ELSE run_input_check_loop(l, signatures, i + 1, has_missing_params)

\* a mismatched signature counted as a missing parameter instead of raising
RECURSIVE run_input_check_lenient_loop(_, _, _, _)
run_input_check_lenient_loop(l, signatures, i, has_missing_params) ==
    IF i > Len(l) THEN [err |-> "", ret |-> ~has_missing_params]
    ELSE IF l[i].tag = "none"
         THEN run_input_check_lenient_loop(l, signatures, i + 1, TRUE)
    ELSE IF l[i].tag # "data" THEN [err |-> "invalid data list", ret |-> FALSE]
    ELSE IF l[i].sig # signatures[i]
         THEN run_input_check_lenient_loop(l, signatures, i + 1, TRUE)
    ELSE run_input_check_lenient_loop(l, signatures, i + 1, has_missing_params)

run_input_check_lenient(l, signatures) ==
    IF Len(l) # Len(signatures) THEN [err |-> "invalid data list", ret |-> FALSE]
    ELSE run_input_check_lenient_loop(l, signatures, 1, FALSE)

run_input_check(l, signatures) ==
    IF Len(l) # Len(signatures) THEN [err |-> "invalid data list", ret |-> FALSE]
    ELSE run_input_check_loop(l, signatures, 1, FALSE)

(***************************************************************************)
(* The joint targets a composite can be wired to, by number; NoJoint is    *)
(* Python's None.  Target 5 is itself a (wired) composite.                 *)
(***************************************************************************)
Targets == 1..5

TargetProc(j) ==
    CASE j = 1 -> ProcedureUnaryOperator("neg@py", IntSig)
      [] j = 2 -> ProcedureBinaryOperator("add@py", IntSig)
      [] j = 3 -> ProcedureComparator("lt@py", IntSig)
      [] j = 4 -> ProcedureBranch(IntSig, 2)
      [] j = 5 -> [ProcedureComposite(<<IntSig, IntSig>>, <<IntSig, IntSig>>)
                     EXCEPT !.output_joints = <<2, NoJoint>>,
                            !.output_indices = <<0, 1>>]

RECURSIVE RunProc(_, _)

\* joint_basic.joint_run: the target evaluated on the list it is handed
joint_run(joint, l) == RunProc(TargetProc(joint), l)

get_joints(p) ==
    [k \in 1..Min(Len(p.output_joints), Len(p.output_indices)) |->
        <<p.output_joints[k], p.output_indices[k]>>]

\* a pass-through slot that hands out a copy of the input instead of the input
composite_slot_copy(joint, i, l) ==
    IF joint # NoJoint
    THEN LET r == joint_run(joint, l) IN
         IF r.status = "raised" THEN [err |-> r.err, val |-> None]
         ELSE IF i >= Len(r.out) THEN [err |-> "IndexError", val |-> None]
         ELSE [err |-> "", val |-> r.out[i + 1]]
    ELSE IF i >= Len(l) THEN [err |-> "IndexError", val |-> None]
         ELSE [err |-> "", val |-> clone(l[i + 1])]

\* one element of ProcedureComposite.run_normally's list: its value or the error
composite_slot(joint, i, l) ==
    IF joint # NoJoint
    THEN LET r == joint_run(joint, l) IN
         IF r.status = "raised" THEN [err |-> r.err, val |-> None]
         ELSE IF i >= Len(r.out) THEN [err |-> "IndexError", val |-> None]
         ELSE [err |-> "", val |-> r.out[i + 1]]
    ELSE IF i >= Len(l) THEN [err |-> "IndexError", val |-> None]
         ELSE [err |-> "", val |-> l[i + 1]]

RECURSIVE composite_loop(_, _, _, _, _)
composite_loop(pairs, l, k, out, evals) ==
    IF k > Len(pairs) THEN Returned("normal", out, evals)
    ELSE LET joint == pairs[k][1]
             s == composite_slot(joint, pairs[k][2], l)
             ev == IF joint # NoJoint THEN Append(evals, joint) ELSE evals
         IN IF s.err # "" THEN Raised("normal", s.err, ev)
            ELSE composite_loop(pairs, l, k + 1, Append(out, s.val), ev)

composite_run_normally(p, l) == composite_loop(get_joints(p), l, 1, <<>>, <<>>)

unary_run_normally(p, l) ==
    LET v == native_function(p.name, get_value(l[1]), get_value(l[1])) IN
    IF IsErr(v) THEN Raised("normal", v.k, <<>>)
    ELSE Returned("normal", <<set_value(clone(l[1]), v)>>, <<>>)

binary_run_normally(p, l) ==
    LET v == native_function(p.name, get_value(l[1]), get_value(l[2])) IN
    IF IsErr(v) THEN Raised("normal", v.k, <<>>)
    ELSE Returned("normal", <<set_value(clone(l[1]), v)>>, <<>>)

comparator_run_normally(p, l) ==
    LET v == native_function(p.name, get_value(l[1]), get_value(l[2])) IN
    IF IsErr(v) THEN Raised("normal", v.k, <<>>)
    ELSE Returned("normal", <<set_value(ProcedureDataBool, v)>>, <<>>)

\* (flag & (1 >> i)) and x or None
mask_pick(flag, i, x) ==
    IF BitAnd(flag, ShiftRight(1, i)) # 0 /\ SlotTruthy(x) THEN x ELSE None

filter_run_normally(p, l, path) ==
    IF l[1].tag = "none" THEN Raised(path, "AttributeError", <<>>)
    ELSE Returned(path,
                  [k \in 1..Len(p.output_signatures) |->
                      mask_pick(get_value(l[1]).n, k - 1, l[k + 1])],
                  <<>>)

branch_run_normally(p, l, path) ==
    IF l[1].tag = "none" THEN Raised(path, "AttributeError", <<>>)
    ELSE Returned(path,
                  [k \in 1..Len(p.output_signatures) |->
                      mask_pick(get_value(l[1]).n, k - 1, l[2])],
                  <<>>)

\* the mask slot not skipped
select_index_no_offset(flag) == Log2(flag)

select_index(flag) == Log2(flag) + 1

select_run_normally(p, l, path) ==
    IF l[1].tag = "none" THEN Raised(path, "AttributeError", <<>>)
    ELSE LET flag == get_value(l[1]).n IN
         IF flag <= 0 THEN Raised(path, "ValueError", <<>>)
         ELSE LET index == select_index(flag) IN
              Returned(path, <<IF index < Len(l) THEN l[index + 1] ELSE None>>, <<>>)

\* ProcedureBasic.run_normally / run_exceptionally: [None] * len(output_signatures)
basic_run(p, path) == Returned(path, Repeat(None, Len(p.output_signatures)), <<>>)

run_normally(p, l) ==
    CASE p.cls = "ProcedureComposite" -> composite_run_normally(p, l)
      [] p.cls = "ProcedureUnaryOperator" -> unary_run_normally(p, l)
      [] p.cls = "ProcedureBinaryOperator" -> binary_run_normally(p, l)
      [] p.cls = "ProcedureComparator" -> comparator_run_normally(p, l)
      [] p.cls = "ProcedureFilter" -> filter_run_normally(p, l, "normal")
      [] p.cls = "ProcedureBranch" -> branch_run_normally(p, l, "normal")
      [] p.cls = "ProcedureSelect" -> select_run_normally(p, l, "normal")
      [] OTHER -> basic_run(p, "normal")

\* no variant overriding the degraded path
run_exceptionally_default(p, l) == basic_run(p, "degraded")

run_exceptionally(p, l) ==
    CASE p.cls = "ProcedureFilter" -> filter_run_normally(p, l, "degraded")
      [] p.cls = "ProcedureSelect" -> select_run_normally(p, l, "degraded")
      [] OTHER -> basic_run(p, "degraded")

\* the two paths swapped
run_dispatch_swapped(p, l, complete) ==
    IF complete THEN run_exceptionally(p, l) ELSE run_normally(p, l)

run_dispatch(p, l, complete) ==
    IF complete THEN run_normally(p, l) ELSE run_exceptionally(p, l)

RunProc(p, l) ==
    LET chk == run_input_check(l, p.input_signatures) IN
    IF chk.err # "" THEN Raised("none", "AssertionError", <<>>)
    ELSE run_dispatch(p, l, chk.ret)

(***************************************************************************)
(* joint_basic.joint_validate, as the wiring rules describe it: the lists  *)
(* have one entry per declared output; a None joint refers to one of the   *)
(* composite's own inputs, any other joint to one of its target's outputs; *)
(* the referenced signature equals the declared output signature.          *)
(***************************************************************************)
RECURSIVE joint_validate_loop(_, _, _, _, _)
joint_validate_loop(joints, indices, p, signatures, k) ==
    IF k > Len(signatures) THEN ""
    ELSE LET refs == IF joints[k] = NoJoint THEN p.input_signatures
                     ELSE TargetProc(joints[k]).output_signatures
             i == indices[k]
         IN IF i < 0 \/ i >= Len(refs) THEN "index out of range"
            ELSE IF refs[i + 1] # signatures[k] THEN "signature miss match"
            ELSE joint_validate_loop(joints, indices, p, signatures, k + 1)

joint_validate(joints, indices, p, signatures) ==
    IF Len(joints) # Len(signatures) \/ Len(indices) # Len(signatures)
    THEN "length miss match"
    ELSE joint_validate_loop(joints, indices, p, signatures, 1)

(***************************************************************************)
(* ProcedureComposite.set_joints: validate, then assign.                   *)
(***************************************************************************)
set_joints_assign_first(p, joints, indices) ==
    LET e == joint_validate(joints, indices, p, p.output_signatures) IN
    [proc |-> [p EXCEPT !.output_joints = joints, !.output_indices = indices],
     res |-> IF e # "" THEN Raised("none", e, <<>>) ELSE Returned("none", <<>>, <<>>)]

set_joints(p, joints, indices) ==
    LET e == joint_validate(joints, indices, p, p.output_signatures) IN
    IF e # "" THEN [proc |-> p, res |-> Raised("none", e, <<>>)]
    ELSE [proc |-> [p EXCEPT !.output_joints = joints, !.output_indices = indices],
          res |-> Returned("none", <<>>, <<>>)]

(***************************************************************************)
(* The instances and the inputs the model draws from.                      *)
(***************************************************************************)
CompositeShapes ==
    { <<<<>>, <<>>>>,
      <<<<IntSig>>, <<IntSig>>>>,
      <<<<IntSig, IntSig>>, <<IntSig, IntSig>>>>,
      <<<<IntSig, BoolSig>>, <<BoolSig>>>>,
      <<<<IntSig, IntSig>>, <<BoolSig>>>> }

Instances ==
    {ProcedureBasic}
    \cup {ProcedureComposite(s[1], s[2]) : s \in CompositeShapes}
    \cup {ProcedureUnaryOperator(n, t) : n \in UnaryNames \cup {"unary_op@py"}, t \in Sigs}
    \cup {ProcedureBinaryOperator(n, t) : n \in BinaryNames \cup {"binary_op@py"}, t \in Sigs}
    \cup {ProcedureComparator(n, t) : n \in ComparatorNames \cup {"compare@py"}, t \in Sigs}
    \cup {ProcedureFilter(t, c) : t \in Sigs, c \in 0..MaxCount}
    \cup {ProcedureBranch(t, c) : t \in Sigs, c \in 0..MaxCount}
    \cup {ProcedureSelect(t, c) : t \in Sigs, c \in 0..MaxCount}

SlotValues ==
    {None, Junk}
    \cup {Data(IntSig, 0, IntV(n)) : n \in 0..MaxVal}
    \cup {Data(BoolSig, 0, BoolV(b)) : b \in BOOLEAN}

\* the caller's list: every data object in it is a distinct object
MkList(c) == [i \in 1..Len(c) |-> IF c[i].tag = "data" THEN [c[i] EXCEPT !.id = i] ELSE c[i]]

InputLists(p) ==
    {MkList(c) : c \in SeqsUpTo(SlotValues, Min(Len(p.input_signatures) + 1, MaxLen))}

JointLists == SeqsUpTo(Targets \cup {NoJoint}, MaxJoints)
IndexLists == SeqsUpTo(0..2, MaxJoints)

NoCall == [op |-> "", inputs |-> <<>>, joints |-> <<>>, indices |-> <<>>, res |-> NoOutcome]

IdleCall == [pc |-> "idle", inputs |-> <<>>, pairs |-> <<>>, k |-> 0,
             out |-> <<>>, evals |-> <<>>, mixed |-> FALSE, res |-> NoOutcome]

Callers == 1..2

(***************************************************************************)
(* Spec: one caller, whole operations.  last is what the caller holds of   *)
(* its latest call (arguments and outcome) until it drops it.              *)
(***************************************************************************)
Init ==
    /\ proc \in Instances
    /\ last = NoCall
    /\ calls = [c \in Callers |-> IdleCall]

Run ==
    /\ last.op = ""
    /\ \E l \in InputLists(proc) :
          last' = [NoCall EXCEPT !.op = "run", !.inputs = l, !.res = RunProc(proc, l)]
    /\ UNCHANGED <<proc, calls>>

SetJoints ==
    /\ last.op = ""
    /\ proc.cls = "ProcedureComposite"
    /\ \E joints \in JointLists, indices \in IndexLists :
          LET r == set_joints(proc, joints, indices) IN
          /\ proc' = r.proc
          /\ last' = [NoCall EXCEPT !.op = "set_joints", !.joints = joints,
                                    !.indices = indices, !.res = r.res]
    /\ UNCHANGED calls

Drop ==
    /\ last.op # ""
    /\ last' = NoCall
    /\ UNCHANGED <<proc, calls>>

Next == Run \/ SetJoints \/ Drop

Spec == Init /\ [][Next]_vars

(***************************************************************************)
(* SpecCalls: two callers evaluate one composite, their calls interleaved  *)
(* at the elements of run_normally's list (each element is one joint_run   *)
(* or one pass-through); set_joints may run in between.  A call keeps its  *)
(* own frame: its argument list, the list get_joints() returned to it, the *)
(* position in it and the elements built so far.  mixed records that a     *)
(* step of the call was taken while the other call was in its loop.        *)
(***************************************************************************)
CallShapes == { <<<<IntSig, IntSig>>, <<IntSig, IntSig>>>> }

CallWirings ==
    { <<<<2, NoJoint>>, <<0, 1>>>>,
      <<<<NoJoint, NoJoint>>, <<1, 0>>>>,
      <<<<5, 5>>, <<1, 0>>>>,
      <<<<4, 1>>, <<1, 0>>>>,
      <<<<2>>, <<0>>>> }

CallLists ==
    {MkList(c) : c \in [1..2 -> {None} \cup {Data(IntSig, 0, IntV(n)) : n \in {1, 2}}]}
    \cup {<<>>}

SlotInputsShared(c) == calls[1].inputs

\* the procedure_data_list the frame of call c refers to
SlotInputs(c) == calls[c].inputs

Other(c) == 3 - c

InitCalls ==
    /\ proc \in {ProcedureComposite(s[1], s[2]) : s \in CallShapes}
    /\ last = NoCall
    /\ calls = [c \in Callers |-> IdleCall]

CallSetJoints ==
    /\ \E w \in CallWirings : proc' = set_joints(proc, w[1], w[2]).proc
    /\ UNCHANGED <<last, calls>>

\* run: the input check and the dispatch; the degraded path returns at once
CallBegin(c) ==
    /\ calls[c].pc = "idle"
    /\ \E l \in CallLists :
          LET chk == run_input_check(l, proc.input_signatures) IN
          calls' = [calls EXCEPT ![c] =
              IF chk.err # ""
              THEN [IdleCall EXCEPT !.pc = "done", !.inputs = l,
                                    !.res = Raised("none", "AssertionError", <<>>)]
              ELSE IF ~chk.ret
              THEN [IdleCall EXCEPT !.pc = "done", !.inputs = l,
                                    !.res = run_exceptionally(proc, l)]
              ELSE [IdleCall EXCEPT !.pc = "slots", !.inputs = l,
                                    !.pairs = get_joints(proc), !.k = 1]]
    /\ UNCHANGED <<proc, last>>

\* one element of the list run_normally builds
CallSlot(c) ==
    /\ calls[c].pc = "slots"
    /\ calls[c].k <= Len(calls[c].pairs)
    /\ LET f == calls[c]
           joint == f.pairs[f.k][1]
           s == composite_slot(joint, f.pairs[f.k][2], SlotInputs(c))
           ev == IF joint # NoJoint THEN Append(f.evals, joint) ELSE f.evals
           mx == f.mixed \/ calls[Other(c)].pc = "slots"
       IN calls' = [calls EXCEPT ![c] =
              IF s.err # ""
              THEN [f EXCEPT !.pc = "done", !.mixed = mx, !.res = Raised("normal", s.err, ev)]
              ELSE [f EXCEPT !.k = f.k + 1, !.out = Append(f.out, s.val),
                             !.evals = ev, !.mixed = mx]]
    /\ UNCHANGED <<proc, last>>

\* the list is complete: run returns it
CallFinish(c) ==
    /\ calls[c].pc = "slots"
    /\ calls[c].k > Len(calls[c].pairs)
    /\ calls' = [calls EXCEPT ![c] =
          [calls[c] EXCEPT !.pc = "done",
                           !.res = Returned("normal", calls[c].out, calls[c].evals)]]
    /\ UNCHANGED <<proc, last>>

\* the caller has its result; the frame is gone
CallReturn(c) ==
    /\ calls[c].pc = "done"
    /\ calls' = [calls EXCEPT ![c] = IdleCall]
    /\ UNCHANGED <<proc, last>>

NextCalls ==
    \/ CallSetJoints
    \/ \E c \in Callers : CallBegin(c)
    \/ \E c \in Callers : CallSlot(c)
    \/ \E c \in Callers : CallFinish(c)
    \/ \E c \in Callers : CallReturn(c)

SpecCalls == InitCalls /\ [][NextCalls]_vars

(***************************************************************************)
(* Properties.                                                             *)
(***************************************************************************)
Ran == last.op = "run"
Ins == proc.input_signatures
Outs == proc.output_signatures
AllNone(n) == Repeat(None, n)
HasNone(l) == \E i \in 1..Len(l) : l[i].tag = "none"
HasJunk(l) == \E i \in 1..Len(l) : l[i].tag = "junk"
LenMismatch(l) == Len(l) # Len(Ins)
SigMismatch(l) ==
    \E i \in 1..Min(Len(l), Len(Ins)) : l[i].tag = "data" /\ l[i].sig # Ins[i]
SameResult(a, b) == a.status = b.status /\ a.err = b.err /\ a.out = b.out
BitSet(mask, i) == (mask \div Pow(2, i)) % 2 = 1

\* the wiring rules, stated on a whole wiring
ValidWiring(p, joints, indices) ==
    /\ Len(joints) = Len(p.output_signatures)
    /\ Len(indices) = Len(p.output_signatures)
    /\ \A k \in 1..Len(p.output_signatures) :
          LET refs == IF joints[k] = NoJoint THEN p.input_signatures
                      ELSE TargetProc(joints[k]).output_signatures
          IN /\ indices[k] \in 0..(Len(refs) - 1)
             /\ refs[indices[k] + 1] = p.output_signatures[k]

\* C1: run raises a contract violation, and runs neither path, when the list
\* has the wrong length or a present slot carries a signature other than the
\* declared one; a list of the right length whose present slots all match is
\* never rejected, whatever slots are absent.
C1_InputCheck ==
    Ran =>
       /\ (LenMismatch(last.inputs) \/ SigMismatch(last.inputs)) =>
             /\ last.res.status = "raised"
             /\ last.res.err = "AssertionError"
             /\ last.res.path = "none"
       /\ (~LenMismatch(last.inputs) /\ ~SigMismatch(last.inputs) /\ ~HasJunk(last.inputs)) =>
             last.res.path # "none"

C1_Witness ==
    /\ Ran
    /\ ~LenMismatch(last.inputs)
    /\ SigMismatch(last.inputs)
    /\ HasNone(last.inputs)
    /\ last.res.status = "raised"
    /\ last.res.path = "none"

\* C2: a list that passes the checks is dispatched to exactly one path, the
\* normal one iff no slot is absent; the default degraded path returns one
\* absent value per declared output.
C2_Dispatch ==
    (Ran /\ ~LenMismatch(last.inputs) /\ ~SigMismatch(last.inputs) /\ ~HasJunk(last.inputs)) =>
       /\ last.res.path \in {"normal", "degraded"}
       /\ last.res.path = "normal" <=> ~HasNone(last.inputs)
       /\ (last.res.path = "degraded" /\ proc.cls \notin {"ProcedureFilter", "ProcedureSelect"}) =>
             /\ last.res.status = "returned"
             /\ last.res.out = AllNone(Len(Outs))

C2_Witness ==
    /\ Ran
    /\ proc.cls = "ProcedureBinaryOperator"
    /\ Len(last.inputs) = 2
    /\ last.inputs[1].tag = "data"
    /\ last.res.path = "degraded"
    /\ last.res.out = <<None>>

\* C3: a set_joints call whose lists break a wiring rule raises and leaves the
\* instance as it was, and whatever a set_joints call installs satisfies the
\* wiring rules.
C3_SetJointsStep ==
    (last'.op = "set_joints" /\ last.op = "") =>
       /\ ~ValidWiring(proc, last'.joints, last'.indices) =>
             (last'.res.status = "raised" /\ proc' = proc)
       /\ (proc'.output_joints # proc.output_joints
             \/ proc'.output_indices # proc.output_indices) =>
             ValidWiring(proc', proc'.output_joints, proc'.output_indices)

C3_SetJoints == [][C3_SetJointsStep]_vars

C3_Witness ==
    /\ last.op = "set_joints"
    /\ last.res.status = "raised"
    /\ Len(last.joints) = Len(Outs)
    /\ Len(last.indices) = Len(Outs)
    /\ proc.output_joints # <<>>
    /\ proc.output_joints # last.joints

\* C4: a wired composite on a complete list returns, per output slot, the
\* input the slot refers to (the same object) when its joint is None, and
\* otherwise the referenced output of the joint's target evaluated on the
\* list the composite received; every non-None joint is evaluated, in slot
\* order, once per slot; the call raises exactly when a target does.
C4_Expected(k) ==
    IF proc.output_joints[k] = NoJoint
    THEN last.inputs[proc.output_indices[k] + 1]
    ELSE RunProc(TargetProc(proc.output_joints[k]), last.inputs).out[proc.output_indices[k] + 1]

C4_TargetRaises ==
    \E k \in 1..Len(proc.output_joints) :
       /\ proc.output_joints[k] # NoJoint
       /\ RunProc(TargetProc(proc.output_joints[k]), last.inputs).status = "raised"

C4_CompositeRun ==
    (/\ Ran
     /\ proc.cls = "ProcedureComposite"
     /\ ValidWiring(proc, proc.output_joints, proc.output_indices)
     /\ last.res.path = "normal") =>
       IF C4_TargetRaises THEN last.res.status = "raised"
       ELSE /\ last.res.status = "returned"
            /\ Len(last.res.out) = Len(proc.output_joints)
            /\ \A k \in 1..Len(proc.output_joints) : last.res.out[k] = C4_Expected(k)
            /\ last.res.evals = SelectSeq(proc.output_joints, LAMBDA j : j # NoJoint)

C4_Witness ==
    /\ Ran
    /\ proc.cls = "ProcedureComposite"
    /\ last.res.status = "returned"
    /\ last.res.path = "normal"
    /\ Len(proc.output_joints) = 2
    /\ proc.output_joints[1] = 5
    /\ proc.output_joints[2] = 5
    /\ last.res.evals = <<5, 5>>
    /\ last.res.out[2] = last.inputs[2]

\* C5: a filter passes data input i through, unchanged, exactly when bit i of
\* the mask is set, and returns absent in the other slots.
C5_FilterByBit ==
    (Ran /\ proc.cls = "ProcedureFilter" /\ last.res.path = "normal") =>
       /\ last.res.status = "returned"
       /\ Len(last.res.out) = Len(Outs)
       /\ \A i \in 0..(Len(Outs) - 1) :
             last.res.out[i + 1] =
                IF BitSet(last.inputs[1].n, i) THEN last.inputs[i + 2] ELSE None

\* C6: a select whose mask has its one set bit at position p, p less than the
\* arity, returns the one-element list holding data input p.
C6_SelectOneBit ==
    (/\ Ran
     /\ proc.cls = "ProcedureSelect"
     /\ last.res.path # "none"
     /\ last.inputs[1].tag = "data") =>
       \A p \in 0..(Len(Ins) - 2) :
          last.inputs[1].n = Pow(2, p) =>
             /\ last.res.status = "returned"
             /\ last.res.out = <<last.inputs[p + 2]>>

C6_Witness ==
    /\ Ran
    /\ proc.cls = "ProcedureSelect"
    /\ Len(Ins) = 4
    /\ Len(last.inputs) = 4
    /\ last.inputs[1].tag = "data"
    /\ last.inputs[1].n = 2
    /\ \A i \in 2..4 : last.inputs[i].tag = "data" /\ last.inputs[i].n = i - 2
    /\ last.res.out = <<last.inputs[3]>>

\* C7: a unary, binary or comparator variant on complete inputs returns one
\* element per declared output, each carrying the signature declared for its
\* position, whose value is the native function of the unwrapped inputs.
C7_OperatorResult ==
    (/\ Ran
     /\ proc.cls \in {"ProcedureUnaryOperator", "ProcedureBinaryOperator", "ProcedureComparator"}
     /\ last.res.path = "normal"
     /\ last.res.status = "returned") =>
       /\ Len(last.res.out) = Len(Outs)
       /\ \A i \in 1..Len(last.res.out) : last.res.out[i].sig = Outs[i]
       /\ get_value(last.res.out[1]) =
             native_function(proc.name, get_value(last.inputs[1]),
                             get_value(last.inputs[Len(last.inputs)]))

\* C8: a step of an evaluation leaves the instance as it is, and a call that
\* has finished holds the result the same call gives when it runs alone on
\* the composite as wired when the call read the joints.
C8_Alone(c) ==
    IF calls[c].res.path = "normal"
    THEN RunProc([proc EXCEPT !.output_joints = [k \in 1..Len(calls[c].pairs) |-> calls[c].pairs[k][1]],
                              !.output_indices = [k \in 1..Len(calls[c].pairs) |-> calls[c].pairs[k][2]]],
                 calls[c].inputs)
    ELSE RunProc(proc, calls[c].inputs)

C8_Results ==
    \A c \in Callers :
       calls[c].pc = "done" =>
          /\ SameResult(calls[c].res, C8_Alone(c))
          /\ calls[c].res.path = C8_Alone(c).path

C8_Isolated == []C8_Results /\ [][calls' # calls => proc' = proc]_vars

C8_Witness ==
    /\ calls[1].pc = "done"
    /\ calls[2].pc = "done"
    /\ calls[1].mixed
    /\ calls[2].mixed
    /\ calls[1].inputs # calls[2].inputs
    /\ calls[1].res.status = "returned"
    /\ calls[2].res.status = "returned"
    /\ Len(calls[1].res.out) = 2
    /\ calls[1].res.out # calls[2].res.out
    /\ calls[1].res.evals # <<>>

\* C9: on an incomplete list with the mask present, filter, branch and select
\* return what their normal-path logic gives for that list; the unary, binary
\* and comparator variants return one absent value per declared output.
C9_Degraded ==
    (Ran /\ last.res.path = "degraded") =>
       /\ (proc.cls = "ProcedureFilter" /\ last.inputs[1].tag = "data") =>
             SameResult(last.res, filter_run_normally(proc, last.inputs, "normal"))
       /\ (proc.cls = "ProcedureBranch" /\ last.inputs[1].tag = "data") =>
             SameResult(last.res, branch_run_normally(proc, last.inputs, "normal"))
       /\ (proc.cls = "ProcedureSelect" /\ last.inputs[1].tag = "data") =>
             SameResult(last.res, select_run_normally(proc, last.inputs, "normal"))
       /\ proc.cls \in {"ProcedureUnaryOperator", "ProcedureBinaryOperator", "ProcedureComparator"} =>
             (last.res.status = "returned" /\ last.res.out = AllNone(Len(Outs)))

C9_Witness ==
    /\ Ran
    /\ proc.cls = "ProcedureFilter"
    /\ last.res.path = "degraded"
    /\ Len(Outs) = 2
    /\ last.inputs[1].tag = "data"
    /\ last.inputs[2].tag = "data"
    /\ last.inputs[3].tag = "none"
    /\ last.res.out = <<last.inputs[2], None>>

\* C10: a run call that returns, returns one element per declared output.
C10_FullOutput ==
    (Ran /\ last.res.status = "returned") => Len(last.res.out) = Len(Outs)

====
